---- MODULE Spec2Model ----
(***************************************************************************)
(* Model of the multi-wallet buy/sell orchestration of src/main.ts.        *)
(*                                                                         *)
(* main.ts imports its helpers with a leading `connection` argument and    *)
(* API_URL / PLATFORM_FEE from ./constants; the helper definitions with    *)
(* those signatures are src/unnamed/part_001 lines 457-696 and the         *)
(* constants are src/unnamed/part_000.  The checkpoint helpers             *)
(* getPausedState / setPausedState exist in src/utils.ts; main.ts calls    *)
(* neither.                                                                *)
(*                                                                         *)
(* SOL values are counted in units of 0.0001 SOL.  A buy amount is the     *)
(* pair (amt, frac) standing for amt + frac/10000 units, because the fee   *)
(* product of main.ts:184-186 is not a whole number of units.              *)
(*                                                                         *)
(* One behaviour is one process: main() runs once (main.ts:324).  The two  *)
(* JSON files and the configuration constant PAUSE_ON_INTERRUPTION are     *)
(* what the process finds when it starts.                                  *)
(***************************************************************************)
EXTENDS Integers, Sequences, FiniteSets, TLC

\* ------------------------------------------------------------------ bounds
MaxWallets == 2
RandMax == 2

\* --------------------------------------------------------------- constants
SOL_BUY_MIN == 100
SOL_BUY_MAX == 300
SOL_RENT == 15
PLATFORM_FEE_PCT == 2
TRANSFER_FEES == 300000000
UNITS_PER_SOL == 10000
LAMPORTS_PER_SOL == 1000000000
RandDen == 6
MaxCount == 3
MaxPool == 3
FRAC_DEN == 100 * 100
owner == 0

VARIABLES
  walletsFile,            \* wallets.json: a sequence of public keys, or NoFile
  pausedFile,             \* paused.json: the JSON text, as a token sequence
  PAUSE_ON_INTERRUPTION,  \* configuration flag of constants
  pc,                     \* position of main()
  action,                 \* response.action
  wallets,                \* const wallets of main()
  amounts,                \* const amounts of main()
  mainWalletBalance,      \* const mainWalletBalance of main()
  index,                  \* loop variable of the running loop
  balance,                \* const balance / solBalance of the iteration
  tokenBalance,           \* const tokenBalance of beginSelling
  latestSig,              \* signature fetched by getLatestTokenTransaction
  tx_hash,                \* tx_hash of the last placeBuyTrade
  outstanding,            \* gateway calls issued and not yet returned
  failed,                 \* gateway calls that returned an error
  calls,                  \* every gateway call issued, in issue order
  diag,                   \* last validation diagnostic of main()
  thrown,                 \* an exception reached main().catch
  numberOfWallets,        \* numberOfWallets.amt, the answer to the prompt
  solHeld,                \* SOL on chain of wallets 1..end when a sell starts
  pausedWallets,          \* what getPausedState returned
  queryFailed             \* the balance query of this step ended in its catch

vars == <<walletsFile, pausedFile, PAUSE_ON_INTERRUPTION, pc, action, wallets,
          amounts, mainWalletBalance, index, balance, tokenBalance, latestSig,
          tx_hash, outstanding, failed, calls, diag, thrown,
          numberOfWallets, solHeld, pausedWallets, queryFailed>>

\* ----------------------------------------------------------------- helpers
NoFile == <<0>>

RECURSIVE Sum(_)
Sum(s) == IF Len(s) = 0 THEN 0 ELSE Head(s) + Sum(Tail(s))

\* the k keys first+1 .. first+k, in generation order
KeyRun(first, k) == [i \in 1..k |-> first + i]

\* utils getWalletsFromFile: a read or parse error yields {} whose length is
\* undefined; every loop and reduce of main.ts then behaves as for [].
getWalletsFromFile(f) == IF f = NoFile THEN <<>> ELSE f

\* one draw of generateRandomAmounts: Math.random() = r / RandMax in [0,1)
randomAmount(r) == (r * (SOL_BUY_MAX - SOL_BUY_MIN)) \div RandMax + SOL_BUY_MIN

\* plans with one entry more than asked for
AmountPlans_oneMore(n) == {[i \in 1..(n + 1) |-> randomAmount(rs[i])] :
                             rs \in [1..(n + 1) -> 0..(RandMax - 1)]}

AmountPlans(n) == {[i \in 1..n |-> randomAmount(rs[i])] :
                     rs \in [1..n -> 0..(RandMax - 1)]}

\* what a balance query can answer; a failed query answers 0
BalanceChoices == {0, 200, UNITS_PER_SOL}

\* signatures: <<>> is undefined, <<0>> a third party's trade,
\* <<k>> the trade of the wallet with key k
NoSig == <<>>
OtherSig == <<0>>

Call(op, from, to, amt, frac) ==
  [op |-> op, from |-> from, to |-> to, amt |-> amt, frac |-> frac]

\* the comparison of main.ts:310 turned around
InsufficientBalance_flipped(neededBalance, mainBalance) ==
  neededBalance < mainBalance

\* main.ts:310
InsufficientBalance(neededBalance, mainBalance) ==
  neededBalance > mainBalance

\* main.ts:170-171 and 184-186.  needed * (1 - fee) in 1/10000 units
FeeProduct(as) == Sum(as) * PLATFORM_FEE_PCT * (100 - PLATFORM_FEE_PCT)

\* main.ts:184: `balance - index === 0 ? needed : 0`, index counted from 0
IsFirstWalletTest(bal, idx) == bal - idx * UNITS_PER_SOL = 0

BuyAmt(bal, idx, as) ==
  IF IsFirstWalletTest(bal, idx)
  THEN (FeeProduct(as) \div FRAC_DEN) - TRANSFER_FEES
  ELSE 0 - TRANSFER_FEES

BuyFrac(bal, idx, as) ==
  IF IsFirstWalletTest(bal, idx) THEN FeeProduct(as) % FRAC_DEN ELSE 0

\* main() is parked at an await (or has returned): the event loop may run
\* the callbacks of calls nobody awaits
Suspended == pc \in {"awaitMainBalance", "awaitLookup", "awaitBalance",
                     "awaitBuy", "awaitTokenSend", "awaitSolBalance",
                     "awaitSweep", "done"}

Issue(c) == /\ outstanding' = outstanding \cup {c}
            /\ calls' = Append(calls, c)

\* the awaited call c returns and the continuation issues d at once
ReturnThenIssue(c, d) == /\ outstanding' = (outstanding \ {c}) \cup {d}
                         /\ calls' = Append(calls, d)

\* -------------------------------------------------------------------- Init
WalletFiles == {NoFile} \cup {KeyRun(0, n) : n \in 0..MaxWallets}

\* JSON text is a sequence of tokens.  A record is written as its key,
\* the decimal digits of its amount and EndOfRecord; the text of [] is <<>>.
\* A wallet's key pair is one number, so privateKey and publicKey are one
\* token.
EndOfRecord == 0 - 1

RECURSIVE Digits(_)
Digits(n) == IF n < 10 THEN <<n>> ELSE Append(Digits(n \div 10), n % 10)

RECURSIVE Number(_)
Number(ds) ==
  IF Len(ds) = 0 THEN 0
  ELSE Number(SubSeq(ds, 1, Len(ds) - 1)) * 10 + ds[Len(ds)]

\* a writer that would keep one significant digit of an amount
RECURSIVE JSONstringify_oneDigit(_)
JSONstringify_oneDigit(ws) ==
  IF Len(ws) = 0 THEN <<>>
  ELSE <<Head(ws).publicKey, Head(Digits(Head(ws).amount)), EndOfRecord>>
         \o JSONstringify_oneDigit(Tail(ws))

\* utils.ts:212, JSON.stringify(wallets, null, 2)
RECURSIVE JSONstringify(_)
JSONstringify(ws) ==
  IF Len(ws) = 0 THEN <<>>
  ELSE <<Head(ws).publicKey>> \o Digits(Head(ws).amount) \o <<EndOfRecord>>
         \o JSONstringify(Tail(ws))

FirstEnd(text) ==
  CHOOSE p \in 1..Len(text) :
    /\ text[p] = EndOfRecord
    /\ \A q \in 1..(p - 1) : text[q] # EndOfRecord

\* utils.ts:201, JSON.parse
RECURSIVE JSONparse(_)
JSONparse(text) ==
  IF Len(text) = 0 THEN <<>>
  ELSE <<[publicKey |-> text[1],
          amount |-> Number(SubSeq(text, 2, FirstEnd(text) - 1))]>>
         \o JSONparse(SubSeq(text, FirstEnd(text) + 1, Len(text)))

\* utils.ts:197-206: a missing or unreadable paused.json reads as []
getPausedState(f) == IF f = NoFile THEN <<>> ELSE JSONparse(f)

\* a checkpoint left on disk: empty, or the tail of the pool from position 2
PausedFiles(wf) ==
  {<<>>} \cup
  {JSONstringify([i \in 1..(Len(wf) - 1) |->
      [publicKey |-> wf[i + 1], amount |-> SOL_BUY_MIN]]) :
     x \in IF wf # NoFile /\ Len(wf) >= 2 THEN {1} ELSE {}}

Init ==
  /\ walletsFile \in WalletFiles
  /\ pausedFile \in PausedFiles(walletsFile)
  /\ PAUSE_ON_INTERRUPTION \in BOOLEAN
  /\ pc = "start"
  /\ action = "none"
  /\ wallets = <<>>
  /\ amounts = <<>>
  /\ mainWalletBalance = 0
  /\ index = 0
  /\ balance = 0
  /\ tokenBalance = 0
  /\ latestSig = NoSig
  /\ tx_hash = NoSig
  /\ outstanding = {}
  /\ failed = {}
  /\ calls = <<>>
  /\ diag = "none"
  /\ thrown = FALSE
  /\ numberOfWallets = 0
  /\ solHeld = <<>>
  /\ pausedWallets = <<>>
  /\ queryFailed = FALSE

\* ------------------------------------------------------------------ main()
Files == <<walletsFile, pausedFile, PAUSE_ON_INTERRUPTION>>
Locals == <<mainWalletBalance, index, balance, tokenBalance, latestSig,
           tx_hash, queryFailed>>
Gateway == <<outstanding, failed, calls>>
Rest == <<numberOfWallets, solHeld, pausedWallets>>

\* main.ts:262-284: an answer that is none of the four choices
ChooseInvalid ==
  /\ pc = "start"
  /\ wallets' = getWalletsFromFile(walletsFile)
  /\ action' = "invalid"
  /\ diag' = "Invalid option"
  /\ pc' = "done"
  /\ UNCHANGED <<Files, Rest, amounts, Locals, Gateway, thrown>>

\* The prompt of type "number" (main.ts:287-291) answers a whole number, or
\* nothing when it is left empty or cancelled.  NaN is that second answer:
\* as in JavaScript it is not <= 0 and no loop counter is below it.
NaN == MaxWallets + 1

isNaN(x) == x = NaN

\* parseInt of a whole number is that number, of no number NaN
parseInt(x) == IF isNaN(x) THEN NaN ELSE x

\* the test of main.ts:293 without its isNaN half
InvalidAmount_positiveOnly(amt) == amt <= 0

\* main.ts:293
InvalidAmount(amt) == isNaN(amt) \/ amt <= 0

\* a store that would keep the records already in the file
storeWalletsToFile_appending(f, ws) == getWalletsFromFile(f) \o ws

\* part_001:545-554: writeFileSync replaces the content of wallets.json
storeWalletsToFile(f, ws) == ws

\* main.ts:34-46: `index < numberOfWallets` is false at once for NaN.
\* The keys are fresh: none is a key of the pool on disk.
generateWallets(n) == KeyRun(MaxWallets, IF isNaN(n) THEN 0 ELSE n)

\* main.ts:286-298.  generateWallets and storeWalletsToFile are not awaited
\* but neither awaits anything itself, so the file is written before main
\* returns.
ChooseGenerate(amt) ==
  /\ pc = "start"
  /\ wallets' = getWalletsFromFile(walletsFile)
  /\ action' = "generate"
  /\ numberOfWallets' = amt
  /\ IF InvalidAmount(amt)
     THEN /\ diag' = "Invalid amount"
          /\ UNCHANGED walletsFile
     ELSE /\ walletsFile' =
               storeWalletsToFile(walletsFile, generateWallets(parseInt(amt)))
          /\ UNCHANGED diag
  /\ pc' = "done"
  /\ UNCHANGED <<pausedFile, PAUSE_ON_INTERRUPTION, solHeld, pausedWallets,
                 amounts, Locals, Gateway, thrown>>

\* main.ts:299-305: draw the amounts, ask for the main wallet's balance
ChooseBuy(as) ==
  /\ pc = "start"
  /\ wallets' = getWalletsFromFile(walletsFile)
  /\ action' = "buy"
  /\ as \in AmountPlans(Len(getWalletsFromFile(walletsFile)))
  /\ amounts' = as
  /\ Issue(Call("getBalance", 0, owner, 0, 0))
  /\ pc' = "awaitMainBalance"
  /\ UNCHANGED <<Files, Rest, Locals, failed, diag, thrown>>

\* a balance query that would answer a full SOL when the chain call fails
getWalletBalance_optimistic(ok, b) == IF ok THEN b ELSE UNITS_PER_SOL

\* part_001:484-498: the chain's answer, or 0 from the catch block when
\* connection.getBalance fails
getWalletBalance(ok, b) == IF ok THEN b ELSE 0

\* main.ts:306-315 and the first entry into beginBuying
MainBalanceReturn(b, ok) ==
  /\ pc = "awaitMainBalance"
  /\ outstanding' = outstanding \ {Call("getBalance", 0, owner, 0, 0)}
  /\ queryFailed' = ~ok
  /\ mainWalletBalance' = getWalletBalance(ok, b)
  /\ IF InsufficientBalance(Sum(amounts), getWalletBalance(ok, b))
     THEN /\ diag' = "Insufficient balance"
          /\ pc' = "done"
     ELSE /\ pc' = "fund"
          /\ UNCHANGED diag
  /\ index' = 0
  /\ UNCHANGED <<Files, Rest, action, wallets, amounts, balance, tokenBalance,
                 latestSig, tx_hash, failed, calls, thrown>>

\* main.ts:161-168: sendSolToWallet is called and not awaited
FundIssue ==
  /\ pc = "fund"
  /\ index < Len(wallets)
  /\ Issue(Call("sendSol", owner, wallets[index + 1], amounts[index + 1], 0))
  /\ index' = index + 1
  /\ UNCHANGED <<Files, Rest, pc, action, wallets, amounts, mainWalletBalance,
                 balance, queryFailed, tokenBalance, latestSig, tx_hash,
                 failed, diag, thrown>>

\* main.ts:170-173: the funding loop is over, the trading loop starts
BeginTrading ==
  /\ pc = "fund"
  /\ index >= Len(wallets)
  /\ index' = 0
  /\ pc' = "tradeHead"
  /\ UNCHANGED <<Files, Rest, action, wallets, amounts, mainWalletBalance,
                 balance, queryFailed, tokenBalance, latestSig, tx_hash,
                 Gateway, diag, thrown>>

\* main.ts:173-174: loop test, then await getLatestTokenTransaction
TradeHead ==
  /\ pc = "tradeHead"
  /\ IF index < Len(wallets)
     THEN /\ Issue(Call("getLatestTokenTransaction", 0, 0, 0, 0))
          /\ pc' = "awaitLookup"
     ELSE /\ pc' = "done"
          /\ UNCHANGED <<outstanding, calls>>
  /\ UNCHANGED <<Files, Rest, action, wallets, amounts, Locals, failed, diag,
                 thrown>>

\* a lookup after which the run would compare the signature with its own
\* last trade and, on a difference, write the rest of the pool to
\* paused.json and stop, at any index and whatever PAUSE_ON_INTERRUPTION is
LookupReturn_pausing(sig) ==
  /\ pc = "awaitLookup"
  /\ latestSig' = sig
  /\ IF sig # tx_hash
     THEN /\ outstanding' =
               outstanding \ {Call("getLatestTokenTransaction", 0, 0, 0, 0)}
          /\ pausedFile' =
               JSONstringify([k \in 1..(Len(wallets) - index) |->
                                [publicKey |-> wallets[index + k],
                                 amount |-> amounts[index + k]]])
          /\ pc' = "done"
          /\ UNCHANGED calls
     ELSE /\ ReturnThenIssue(Call("getLatestTokenTransaction", 0, 0, 0, 0),
                             Call("getBalance", 0, wallets[index + 1], 0, 0))
          /\ pc' = "awaitBalance"
          /\ UNCHANGED pausedFile
  /\ UNCHANGED <<walletsFile, PAUSE_ON_INTERRUPTION, Rest, action, wallets,
                 amounts, mainWalletBalance, index, balance, queryFailed,
                 tokenBalance, tx_hash, failed, diag, thrown>>

\* main.ts:225-259 returns nothing; 175-178 asks for the wallet's balance
LookupReturn(sig) ==
  /\ pc = "awaitLookup"
  /\ latestSig' = sig
  /\ ReturnThenIssue(Call("getLatestTokenTransaction", 0, 0, 0, 0),
                     Call("getBalance", 0, wallets[index + 1], 0, 0))
  /\ pc' = "awaitBalance"
  /\ UNCHANGED <<Files, Rest, action, wallets, amounts, mainWalletBalance,
                 index, balance, queryFailed, tokenBalance, tx_hash, failed,
                 diag, thrown>>

\* main.ts:181-187: placeBuyTrade is called whatever the balance is
BalanceReturn(b, ok) ==
  /\ pc = "awaitBalance"
  /\ balance' = getWalletBalance(ok, b)
  /\ ReturnThenIssue(Call("getBalance", 0, wallets[index + 1], 0, 0),
                     Call("buy", wallets[index + 1], 0,
                          BuyAmt(getWalletBalance(ok, b), index, amounts),
                          BuyFrac(getWalletBalance(ok, b), index, amounts)))
  /\ queryFailed' = ~ok
  /\ pc' = "awaitBuy"
  /\ UNCHANGED <<Files, Rest, action, wallets, amounts, mainWalletBalance,
                 index, tokenBalance, latestSig, tx_hash, failed, diag,
                 thrown>>

\* main.ts:86-96 with getBuyTransaction 48-84: the hash is logged only
BuyReturn(ok) ==
  /\ pc = "awaitBuy"
  /\ \E c \in outstanding :
       /\ c.op = "buy"
       /\ outstanding' = outstanding \ {c}
       /\ failed' = IF ok THEN failed ELSE failed \cup {c}
  /\ tx_hash' = IF ok THEN <<wallets[index + 1]>> ELSE NoSig
  /\ index' = index + 1
  /\ queryFailed' = FALSE
  /\ pc' = "tradeHead"
  /\ UNCHANGED <<Files, Rest, action, wallets, amounts, mainWalletBalance,
                 balance, tokenBalance, latestSig, calls, diag, thrown>>

\* a sendSolToWallet whose catch block would throw the error again
sendSolThrows_rethrowing(ok) == ~ok

\* part_001:593-595: the catch block of sendSolToWallet logs the error and
\* ends, so the promise of sendSolToWallet never rejects
sendSolThrows(ok) == FALSE

\* part_001:567-596: a funding transfer nobody awaits confirms or fails;
\* the failure is logged inside sendSolToWallet and goes nowhere
FundingComplete(c, ok) ==
  /\ Suspended
  /\ c \in outstanding
  /\ c.op = "sendSol"
  /\ c.from = owner
  /\ outstanding' = outstanding \ {c}
  /\ failed' = IF ok THEN failed ELSE failed \cup {c}
  /\ thrown' = (thrown \/ sendSolThrows(ok))
  /\ UNCHANGED <<Files, Rest, pc, action, wallets, amounts, Locals, calls,
                 diag>>

\* a resume that would store an empty pool in wallets.json
ChooseResume_storing ==
  /\ pc = "start"
  /\ wallets' = getWalletsFromFile(walletsFile)
  /\ action' = "resume"
  /\ walletsFile' = storeWalletsToFile(walletsFile, <<>>)
  /\ pc' = "done"
  /\ UNCHANGED <<pausedFile, PAUSE_ON_INTERRUPTION, Rest, amounts, Locals,
                 Gateway, diag, thrown>>

\* main.ts:318-319: the resume branch is empty
ChooseResume ==
  /\ pc = "start"
  /\ wallets' = getWalletsFromFile(walletsFile)
  /\ action' = "resume"
  /\ pc' = "done"
  /\ UNCHANGED <<Files, Rest, amounts, Locals, Gateway, diag, thrown>>

\* what a wallet 1..end can hold on chain when a sell run starts: nothing,
\* or more than SOL_RENT
HeldChoices == {0, 200}

\* main.ts:316-317 and 191-192.  held is a fact of the chain, not a value
\* the program reads: beginSelling never asks for the balance of a wallet
\* other than wallets[0].
ChooseSell(held) ==
  /\ pc = "start"
  /\ wallets' = getWalletsFromFile(walletsFile)
  /\ action' = "sell"
  /\ solHeld' = held
  /\ index' = 1
  /\ pc' = "sellHead"
  /\ UNCHANGED <<Files, numberOfWallets, pausedWallets, amounts,
                 mainWalletBalance, balance, queryFailed, tokenBalance,
                 latestSig, tx_hash, Gateway, diag, thrown>>

\* part_001:500-511: getTokenBalance answers 0 without asking the chain
getTokenBalance(w) == 0

\* main.ts:192-205: the token transfer is sent whatever the balance is
SellHead ==
  /\ pc = "sellHead"
  /\ IF index < Len(wallets)
     THEN /\ tokenBalance' = getTokenBalance(wallets[index + 1])
          /\ Issue(Call("sendToken", wallets[index + 1], wallets[1],
                        getTokenBalance(wallets[index + 1]), 0))
          /\ pc' = "awaitTokenSend"
     ELSE /\ pc' = "sellZero"
          /\ UNCHANGED <<tokenBalance, outstanding, calls>>
  /\ UNCHANGED <<Files, Rest, action, wallets, amounts, mainWalletBalance,
                 index, balance, queryFailed, latestSig, tx_hash, failed,
                 diag, thrown>>

\* a token transfer whose failure would be thrown on, as the catch block of
\* utils.ts:352-355 does: beginSelling has no try, so the run would end
TokenSendReturn_aborting(ok) ==
  /\ pc = "awaitTokenSend"
  /\ \E c \in outstanding :
       /\ c.op = "sendToken"
       /\ outstanding' = outstanding \ {c}
       /\ failed' = IF ok THEN failed ELSE failed \cup {c}
  /\ index' = index + 1
  /\ pc' = IF ok THEN "sellHead" ELSE "done"
  /\ thrown' = ~ok
  /\ UNCHANGED <<Files, Rest, action, wallets, amounts, mainWalletBalance,
                 balance, queryFailed, tokenBalance, latestSig, tx_hash,
                 calls, diag>>

\* part_001:615-696: a failed token transfer is logged, not thrown
TokenSendReturn(ok) ==
  /\ pc = "awaitTokenSend"
  /\ \E c \in outstanding :
       /\ c.op = "sendToken"
       /\ outstanding' = outstanding \ {c}
       /\ failed' = IF ok THEN failed ELSE failed \cup {c}
  /\ index' = index + 1
  /\ pc' = "sellHead"
  /\ UNCHANGED <<Files, Rest, action, wallets, amounts, mainWalletBalance,
                 balance, queryFailed, tokenBalance, latestSig, tx_hash,
                 calls, diag, thrown>>

\* main.ts:208-216.  wallets[0] of an empty pool is undefined and reading
\* its publicKey throws out of beginSelling and main.  Otherwise
\* getSellTransaction (98-130) starts the POST without returning its
\* promise, placeSellTrade (132-158) fails on decoding undefined and logs,
\* and the balance of wallets[0] is asked for while the POST is in flight.
SellZero ==
  /\ pc = "sellZero"
  /\ IF Len(wallets) = 0
     THEN /\ thrown' = TRUE
          /\ pc' = "done"
          /\ UNCHANGED <<tokenBalance, outstanding, calls>>
     ELSE /\ tokenBalance' = getTokenBalance(wallets[1])
          /\ outstanding' = outstanding \cup
               {Call("sell", wallets[1], 0, getTokenBalance(wallets[1]), 0),
                Call("getBalance", 0, wallets[1], 0, 0)}
          /\ calls' = calls \o
               <<Call("sell", wallets[1], 0, getTokenBalance(wallets[1]), 0),
                 Call("getBalance", 0, wallets[1], 0, 0)>>
          /\ pc' = "awaitSolBalance"
          /\ UNCHANGED thrown
  /\ UNCHANGED <<Files, Rest, action, wallets, amounts, mainWalletBalance,
                 index, balance, queryFailed, latestSig, tx_hash, failed,
                 diag>>

\* main.ts:121-129: the POST of getSellTransaction answers; the value is
\* dropped and an error is logged
SellPostComplete(ok) ==
  /\ Suspended
  /\ \E c \in outstanding :
       /\ c.op = "sell"
       /\ outstanding' = outstanding \ {c}
       /\ failed' = IF ok THEN failed ELSE failed \cup {c}
  /\ UNCHANGED <<Files, Rest, pc, action, wallets, amounts, Locals, calls,
                 diag, thrown>>

\* main.ts:216-222: the whole balance is sent to the main wallet
SolBalanceReturn(solBalance, ok) ==
  /\ pc = "awaitSolBalance"
  /\ balance' = getWalletBalance(ok, solBalance)
  /\ ReturnThenIssue(Call("getBalance", 0, wallets[1], 0, 0),
                     Call("sendSol", wallets[1], owner,
                          getWalletBalance(ok, solBalance), 0))
  /\ queryFailed' = ~ok
  /\ pc' = "awaitSweep"
  /\ UNCHANGED <<Files, Rest, action, wallets, amounts, mainWalletBalance,
                 index, tokenBalance, latestSig, tx_hash, failed, diag,
                 thrown>>

\* part_001:567-596 awaited at main.ts:217
SweepReturn(ok) ==
  /\ pc = "awaitSweep"
  /\ \E c \in outstanding :
       /\ c.op = "sendSol"
       /\ c.to = owner
       /\ outstanding' = outstanding \ {c}
       /\ failed' = IF ok THEN failed ELSE failed \cup {c}
  /\ thrown' = (thrown \/ sendSolThrows(ok))
  /\ pc' = "done"
  /\ UNCHANGED <<Files, Rest, action, wallets, amounts, Locals, calls, diag>>

Next ==
  \/ ChooseInvalid
  \/ \E amt \in (0 - 1)..NaN : ChooseGenerate(amt)
  \/ \E as \in AmountPlans(Len(getWalletsFromFile(walletsFile))) : ChooseBuy(as)
  \/ \E b \in BalanceChoices, ok \in BOOLEAN : MainBalanceReturn(b, ok)
  \/ FundIssue
  \/ BeginTrading
  \/ TradeHead
  \/ \E sig \in {NoSig, OtherSig, tx_hash} : LookupReturn(sig)
  \/ \E b \in BalanceChoices, ok \in BOOLEAN : BalanceReturn(b, ok)
  \/ \E ok \in BOOLEAN : BuyReturn(ok)
  \/ \E c \in outstanding, ok \in BOOLEAN : FundingComplete(c, ok)
  \/ ChooseResume
  \/ \E held \in [2..Len(getWalletsFromFile(walletsFile)) -> HeldChoices] :
       ChooseSell(held)
  \/ SellHead
  \/ \E ok \in BOOLEAN : TokenSendReturn(ok)
  \/ SellZero
  \/ \E ok \in BOOLEAN : SellPostComplete(ok)
  \/ \E b \in BalanceChoices, ok \in BOOLEAN : SolBalanceReturn(b, ok)
  \/ \E ok \in BOOLEAN : SweepReturn(ok)

Spec == Init /\ [][Next]_vars

\* ------------------------------------------------------------------ claims
IsFunding(c) == c.op = "sendSol" /\ c.from = owner
IsTradingCall(c) == c.op = "buy" \/ (c.op = "getBalance" /\ c.to # owner)
FundingOutstanding == {c \in outstanding : IsFunding(c)}
BuyRunCompleted ==
  action = "buy" /\ pc = "done" /\ diag # "Insufficient balance"

\* C1: in a fresh buy run the funding transfers are issued one at a time in
\* wallet order, each for amounts[i] from the main wallet to wallets[i], and
\* no balance query or buy order of a wallet is issued while a funding
\* transfer is still outstanding.
C1_FundingBeforeTrading ==
  action = "buy" =>
    /\ Cardinality(FundingOutstanding) <= 1
    /\ \A c \in outstanding : IsTradingCall(c) => FundingOutstanding = {}
    /\ \A i \in 1..Len(calls) :
         IsFunding(calls[i]) =>
           /\ i - 1 \in 1..Len(wallets)
           /\ calls[i].to = wallets[i - 1]
           /\ calls[i].amt = amounts[i - 1]

\* C2: during a buy or sell run at most one chain/gateway call is
\* outstanding at any time.
C2_OneCallOutstanding ==
  action \in {"buy", "sell"} => Cardinality(outstanding) <= 1

\* the interruption check of iteration index has seen a signature that is
\* not the one of the run's own last trade
Interrupted ==
  /\ PAUSE_ON_INTERRUPTION
  /\ action = "buy"
  /\ index > 0
  /\ index < Len(wallets)
  /\ pc \notin {"tradeHead", "awaitLookup"}
  /\ latestSig # tx_hash

\* the Checkpoint: what paused.json reads as
Checkpoint == getPausedState(pausedFile)

CheckpointFrom(i) ==
  [k \in 1..(Len(wallets) - i) |->
     [publicKey |-> wallets[i + k], amount |-> amounts[i + k]]]

\* C3: with interruption detection enabled, when at wallet index i > 0 the
\* latest signature on the mint differs from the own last trade signature,
\* the run persists the Checkpoint of wallets i..end in original order with
\* their planned amounts, submits no buy order for wallet i and stops.
C3_PauseOnInterruption ==
  Interrupted =>
    /\ Checkpoint = CheckpointFrom(index)
    /\ pc = "done"
    /\ \A c \in outstanding : c.op # "buy"

\* C4: a resume run against a non-empty Checkpoint performs no funding
\* transfer, processes the stored wallets and leaves the Checkpoint empty
\* when it completes.
C4_ResumeClearsCheckpoint ==
  (action = "resume" /\ pc = "done") =>
    /\ Checkpoint = <<>>
    /\ \A i \in 1..Len(calls) : ~IsFunding(calls[i])

\* the wallets for which a buy order was submitted, in submission order
RECURSIVE BuyOrder(_)
BuyOrder(cs) ==
  IF Len(cs) = 0 THEN <<>>
  ELSE IF Head(cs).op = "buy" THEN <<Head(cs).from>> \o BuyOrder(Tail(cs))
  ELSE BuyOrder(Tail(cs))

\* C5: a buy run ends Completed only if every wallet of the run was
\* processed in index order from 0, and whenever a buy run ends Completed
\* the persisted Checkpoint is empty.
C5_CompletedMeansAllProcessed ==
  BuyRunCompleted => /\ BuyOrder(calls) = wallets
                     /\ Checkpoint = <<>>

\* C6: if the sum of the planned amounts exceeds the main wallet's balance,
\* the fresh buy run is rejected with the insufficient-balance diagnostic
\* before any funding transfer or buy order is issued.
C6_RejectedBeforeAnyTransfer ==
  (/\ action = "buy"
   /\ pc # "awaitMainBalance"
   /\ Sum(amounts) > mainWalletBalance) =>
    /\ pc = "done"
    /\ diag = "Insufficient balance"
    /\ \A i \in 1..Len(calls) : calls[i].op \notin {"sendSol", "buy"}

C6_Witness ==
  /\ action = "buy"
  /\ pc = "done"
  /\ Len(wallets) = MaxWallets
  /\ Sum(amounts) > mainWalletBalance
  /\ mainWalletBalance > 0
  /\ diag = "Insufficient balance"
  /\ Len(calls) = 1

\* C7: if any funding transfer of a fresh buy run fails, the run aborts: no
\* later funding transfer and no buy order is issued in that run.
C7_FundingFailureAborts ==
  [][(\E c \in failed : IsFunding(c)) =>
       \A i \in (Len(calls) + 1)..Len(calls') :
         calls'[i].op # "buy" /\ ~IsFunding(calls'[i])]_vars

\* C8: in the Trading phase no buy order is submitted for a wallet whose
\* queried balance minus RESERVE is <= 0.
C8_NoBuyWithoutSpendable ==
  pc = "awaitBuy" => balance - SOL_RENT > 0

\* C9: every buy order submitted in the Trading phase has an amount that is
\* strictly positive and not greater than balance - RESERVE of its wallet.
C9_BuyAmountWithinSpendable ==
  \A c \in outstanding :
    c.op = "buy" =>
      /\ c.amt > 0 \/ (c.amt = 0 /\ c.frac > 0)
      /\ c.amt < balance - SOL_RENT
           \/ (c.amt = balance - SOL_RENT /\ c.frac = 0)

\* C10: in a sell run a token transfer from a wallet i >= 1 to wallet 0 is
\* issued only if the queried token balance is positive, and a SOL transfer
\* to wallet 0 only if the balance minus RESERVE is positive.
C10_SellTransfersOnlyWhenPositive ==
  action = "sell" =>
    \A i \in 1..Len(calls) :
      /\ calls[i].op = "sendToken" => calls[i].amt > 0
      /\ (calls[i].op = "sendSol" /\ calls[i].to # owner) => calls[i].amt > 0
\* C11: in a sell run the sell order of wallet 0 is submitted only after the
\* consolidation of wallets 1..end has finished, only when wallet 0's token
\* balance is positive, and for that full balance.
SellRunConsolidated ==
  \A c \in outstanding : c.op # "sendToken"

C11_SellOnlyPositiveBalance ==
  \A c \in outstanding :
    c.op = "sell" =>
      /\ SellRunConsolidated
      /\ tokenBalance > 0
      /\ c.amt = tokenBalance

\* C12: the last step of a sell run sends SOL from wallet 0 to the main
\* wallet only if balance - SOL_RENT is positive, sends exactly that much,
\* and asks for the balance only once the sell submission has come back.
C12_SweepAboveReserve ==
  /\ pc = "awaitSweep" =>
       /\ balance - SOL_RENT > 0
       /\ Call("sendSol", wallets[1], owner, balance - SOL_RENT, 0)
            \in outstanding
  /\ pc = "awaitSolBalance" =>
       \A c \in outstanding : c.op # "sell"

\* C13: after a sell run in which no step failed, every wallet 1..end that
\* held more than SOL_RENT has had exactly its balance less SOL_RENT sent
\* to wallet 0.
SellRunCompleted ==
  /\ action = "sell"
  /\ pc = "done"
  /\ outstanding = {}
  /\ failed = {}
  /\ ~thrown

C13_SolConsolidated ==
  SellRunCompleted =>
    \A i \in 2..Len(wallets) :
      solHeld[i] > SOL_RENT =>
        \E n \in 1..Len(calls) :
          calls[n] = Call("sendSol", wallets[i], wallets[1],
                          solHeld[i] - SOL_RENT, 0)

\* C14: the persisted Checkpoint is empty after every successful generate,
\* every completed fresh buy run and every completed resume.
GenerateSucceeded ==
  action = "generate" /\ pc = "done" /\ diag = "none"

ResumeCompleted ==
  action = "resume" /\ pc = "done"

C14_CheckpointClearedOnCompletion ==
  (GenerateSucceeded \/ BuyRunCompleted \/ ResumeCompleted) =>
    Len(Checkpoint) = 0

\* C15: a resume attempt while the Checkpoint is empty issues no transfer
\* and no buy order, leaves the wallet list and the Checkpoint unchanged,
\* and reports that there is nothing to resume.
C15_ResumeOfNothingIsReported ==
  (ResumeCompleted /\ Len(Checkpoint) = 0) =>
    /\ Len(calls) = 0
    /\ wallets = getWalletsFromFile(walletsFile)
    /\ diag = "Nothing to resume"

\* C16: generate with a wallet count that is not positive or not a number
\* reports the invalid amount, creates no keypair and leaves the persisted
\* wallet list as it was.
C16_InvalidCountNotStarted ==
  [][(/\ pc = "start"
      /\ action' = "generate"
      /\ (numberOfWallets' = NaN \/ numberOfWallets' <= 0)) =>
       /\ diag' = "Invalid amount"
       /\ walletsFile' = walletsFile
       /\ calls' = calls]_vars

C16_Witness ==
  /\ action = "generate"
  /\ pc = "done"
  /\ numberOfWallets = NaN
  /\ diag = "Invalid amount"
  /\ walletsFile = KeyRun(0, MaxWallets)

LAMPORTS_PER_UNIT == LAMPORTS_PER_SOL \div UNITS_PER_SOL
MinLamports == SOL_BUY_MIN * LAMPORTS_PER_UNIT
MaxLamports == SOL_BUY_MAX * LAMPORTS_PER_UNIT

\* utils.ts:228-229: (Math.random() * (MAX - MIN) + MIN) * LAMPORTS_PER_SOL
randomLamports(r) ==
  [num |-> r * (MaxLamports - MinLamports) + MinLamports * RandDen,
   den |-> RandDen]

\* no rounding at all, as in part_001:558-559
MathRound_absent(q) == q

\* utils.ts:227, Math.round: the nearest whole number, halves upwards
MathRound(q) == [num |-> (2 * q.num + q.den) \div (2 * q.den), den |-> 1]

\* utils.ts:226-230; the division by LAMPORTS_PER_SOL changes the unit only
roundedAmount(r) == MathRound(randomLamports(r))

InitAmounts ==
  /\ numberOfWallets \in 1..MaxCount
  /\ pc = "amountsLoop"
  /\ amounts = <<>>
  /\ index = 0
  /\ walletsFile = NoFile
  /\ pausedFile = NoFile
  /\ PAUSE_ON_INTERRUPTION = FALSE
  /\ action = "none"
  /\ wallets = <<>>
  /\ mainWalletBalance = 0
  /\ balance = 0
  /\ tokenBalance = 0
  /\ latestSig = NoSig
  /\ tx_hash = NoSig
  /\ outstanding = {}
  /\ failed = {}
  /\ calls = <<>>
  /\ diag = "none"
  /\ thrown = FALSE
  /\ solHeld = <<>>
  /\ pausedWallets = <<>>
  /\ queryFailed = FALSE

\* utils.ts:225-231: one turn of the loop
AmountsPush(r) ==
  /\ pc = "amountsLoop"
  /\ index < numberOfWallets
  /\ amounts' = Append(amounts, roundedAmount(r))
  /\ index' = index + 1
  /\ UNCHANGED <<Files, Rest, pc, action, wallets, mainWalletBalance, balance,
                 queryFailed, tokenBalance, latestSig, tx_hash, Gateway, diag,
                 thrown>>

\* utils.ts:225 and 234: the loop test fails, amounts is returned
AmountsReturn ==
  /\ pc = "amountsLoop"
  /\ index >= numberOfWallets
  /\ pc' = "amountsReturned"
  /\ UNCHANGED <<Files, Rest, action, wallets, amounts, Locals, Gateway, diag,
                 thrown>>

NextAmounts ==
  \/ \E r \in 0..(RandDen - 1) : AmountsPush(r)
  \/ AmountsReturn

SpecAmounts == InitAmounts /\ [][NextAmounts]_vars

\* C18: for every n > 0, generateRandomAmounts(n) returns exactly n values,
\* each a whole number of lamports from SOL_BUY_MIN to SOL_BUY_MAX
\* inclusive, whatever Math.random answers.
C18_AmountsWholeAndInRange ==
  pc = "amountsReturned" =>
    /\ Len(amounts) = numberOfWallets
    /\ \A i \in 1..Len(amounts) :
         /\ amounts[i].num % amounts[i].den = 0
         /\ MinLamports * amounts[i].den <= amounts[i].num
         /\ amounts[i].num <= MaxLamports * amounts[i].den

C18_Witness ==
  /\ pc = "amountsReturned"
  /\ Len(amounts) = MaxCount
  /\ \E i \in 1..Len(amounts), r \in 0..(RandDen - 1) :
       /\ randomLamports(r).num % RandDen # 0
       /\ amounts[i] = roundedAmount(r)
  /\ \E i \in 1..Len(amounts) : amounts[i].num = MinLamports

\* ---------------------------------- setPausedState, getPausedState, utils.ts
\* amounts a Checkpoint can hold, in 0.0001 SOL
CheckpointAmounts == {0, SOL_BUY_MIN, 205}

InitCheckpoint ==
  /\ wallets \in UNION {[1..n -> 1..MaxWallets] : n \in 1..MaxWallets}
  /\ amounts \in [1..Len(wallets) -> CheckpointAmounts]
  /\ pausedFile \in {NoFile, <<>>}
  /\ pc = "setPausedState"
  /\ walletsFile = NoFile
  /\ PAUSE_ON_INTERRUPTION = FALSE
  /\ action = "none"
  /\ mainWalletBalance = 0
  /\ index = 0
  /\ balance = 0
  /\ tokenBalance = 0
  /\ latestSig = NoSig
  /\ tx_hash = NoSig
  /\ outstanding = {}
  /\ failed = {}
  /\ calls = <<>>
  /\ diag = "none"
  /\ thrown = FALSE
  /\ numberOfWallets = 0
  /\ solHeld = <<>>
  /\ pausedWallets = <<>>
  /\ queryFailed = FALSE

\* utils.ts:209-220 applied to the records of wallets with their amounts
SetPausedState ==
  /\ pc = "setPausedState"
  /\ pausedFile' = JSONstringify(CheckpointFrom(0))
  /\ pc' = "getPausedState"
  /\ UNCHANGED <<walletsFile, PAUSE_ON_INTERRUPTION, Rest, action, wallets,
                 amounts, Locals, Gateway, diag, thrown>>

\* utils.ts:197-206
GetPausedState ==
  /\ pc = "getPausedState"
  /\ pausedWallets' = getPausedState(pausedFile)
  /\ pc' = "reloaded"
  /\ UNCHANGED <<Files, numberOfWallets, solHeld, action, wallets, amounts,
                 Locals, Gateway, diag, thrown>>

NextCheckpoint ==
  \/ SetPausedState
  \/ GetPausedState

SpecCheckpoint == InitCheckpoint /\ [][NextCheckpoint]_vars

InitSell ==
  /\ walletsFile \in {NoFile} \cup {KeyRun(0, n) : n \in 0..MaxPool}
  /\ pausedFile = <<>>
  /\ PAUSE_ON_INTERRUPTION = FALSE
  /\ pc = "start"
  /\ action = "none"
  /\ wallets = <<>>
  /\ amounts = <<>>
  /\ mainWalletBalance = 0
  /\ index = 0
  /\ balance = 0
  /\ tokenBalance = 0
  /\ latestSig = NoSig
  /\ tx_hash = NoSig
  /\ outstanding = {}
  /\ failed = {}
  /\ calls = <<>>
  /\ diag = "none"
  /\ thrown = FALSE
  /\ numberOfWallets = 0
  /\ solHeld = <<>>
  /\ pausedWallets = <<>>
  /\ queryFailed = FALSE

NextSell ==
  \/ \E held \in [2..Len(getWalletsFromFile(walletsFile)) -> HeldChoices] :
       ChooseSell(held)
  \/ SellHead
  \/ \E ok \in BOOLEAN : TokenSendReturn(ok)
  \/ SellZero
  \/ \E ok \in BOOLEAN : SellPostComplete(ok)
  \/ \E b \in BalanceChoices, ok \in BOOLEAN : SolBalanceReturn(b, ok)
  \/ \E ok \in BOOLEAN : SweepReturn(ok)

SpecSell == InitSell /\ [][NextSell]_vars

C30_EmptyPoolSellEndsQuietly ==
  (action = "sell" /\ Len(wallets) = 0) =>
    /\ Len(calls) = 0
    /\ ~thrown

\* C26: in every buy run the plan of amounts has exactly one entry for each
\* wallet of the run, also when wallets.json is missing or unreadable.
C26_PlanMatchesPool ==
  action = "buy" =>
    /\ Len(amounts) = Len(wallets)
    /\ \A i \in 1..Len(wallets) :
         SOL_BUY_MIN <= amounts[i] /\ amounts[i] <= SOL_BUY_MAX

C26_Witness ==
  /\ action = "buy"
  /\ pc = "done"
  /\ Len(wallets) = MaxWallets
  /\ Len(amounts) = MaxWallets
  /\ amounts[1] # amounts[MaxWallets]
  /\ BuyOrder(calls) = wallets

\* C28: the sum checked against the main wallet's balance includes
\* SOL_RENT: a fresh buy run is rejected exactly when the sum of the
\* amounts plus SOL_RENT exceeds the main balance.
C28_ReserveIncludedInCheck ==
  (action = "buy" /\ pc \notin {"start", "awaitMainBalance"}) =>
    ((Sum(amounts) + SOL_RENT > mainWalletBalance)
       <=> (pc = "done" /\ diag = "Insufficient balance"))

\* C29: when the balance query of the main wallet fails and the pool is
\* not empty, the fresh buy run is rejected as insufficient with no funding
\* transfer and no buy order issued.
MainQueryJustFailed ==
  /\ action = "buy"
  /\ pc # "awaitMainBalance"
  /\ Len(calls) = 1
  /\ queryFailed

C29_FailedMainQueryRejects ==
  (MainQueryJustFailed /\ Len(wallets) > 0) =>
    /\ pc = "done"
    /\ diag = "Insufficient balance"
    /\ mainWalletBalance = 0
    /\ \A c \in outstanding : ~IsFunding(c) /\ c.op # "buy"

C29_Witness ==
  /\ MainQueryJustFailed
  /\ Len(wallets) = MaxWallets
  /\ pc = "done"
  /\ diag = "Insufficient balance"
  /\ outstanding = {}

\* C21: the interruption check never pauses a buy run at wallet index 0,
\* and with interruption detection disabled no buy run stops at the check
\* or writes paused.json, whatever signature the chain reports.
C21_NoPauseAtIndexZeroOrDisabled ==
  [][(action = "buy" /\ (index = 0 \/ ~PAUSE_ON_INTERRUPTION)) =>
       /\ pausedFile' = pausedFile
       /\ (pc = "awaitLookup" /\ pc' # pc) => pc' = "awaitBalance"]_vars

C21_Witness ==
  /\ action = "buy"
  /\ PAUSE_ON_INTERRUPTION
  /\ index = 0
  /\ pc = "awaitBalance"
  /\ latestSig = OtherSig
  /\ Len(wallets) = MaxWallets

\* C22: after an error in the trading loop at wallet index i no buy order
\* is submitted for a wallet of a higher index.
C22_LoopErrorAborts ==
  \A n, m \in 1..Len(calls) :
    (n < m /\ calls[n].op = "buy" /\ calls[n] \in failed) =>
      calls[m].op # "buy"

\* C23: a buy submission that returns a signature makes it the own-last-
\* trade reference, and one that returns nothing leaves the reference as
\* it was.
C23_ReferenceFollowsBuys ==
  [][(pc = "awaitBuy" /\ pc' = "tradeHead") =>
       IF failed' = failed
       THEN tx_hash' = <<wallets[index + 1]>>
       ELSE tx_hash' = tx_hash]_vars

\* C25: a failing balance query is answered as 0 and the step that depends
\* on it is skipped: no buy order in the trading loop, no transfer to the
\* main wallet in a sell run.
C25_FailedQuerySkipsStep ==
  queryFailed =>
    /\ pc \in {"awaitBuy", "awaitSweep"} => balance = 0
    /\ \A c \in outstanding :
         c.op # "buy" /\ ~(c.op = "sendSol" /\ c.to = owner)

\* C27: wallets.json is changed by generate only: no step of a buy, resume
\* or sell run changes it.
C27_OnlyGenerateWritesWallets ==
  [][action' # "generate" => walletsFile' = walletsFile]_vars

C27_Witness ==
  /\ action = "sell"
  /\ pc = "done"
  /\ walletsFile = KeyRun(0, MaxWallets)
  /\ Len(calls) = MaxWallets + 2
  /\ failed # {}

====
